---- MODULE Spec2Model ----
(***************************************************************************)
(* Model of aion-keystore's Accounts object: account creation, transaction *)
(* signing and recovery, keystore encryption and decryption, the compact   *)
(* (RLP) keystore form, checksum addresses, and the Wallet.                *)
(*                                                                         *)
(* Byte strings are modelled by value.  A JavaScript value is a record     *)
(* tagged with its kind (undefined, number, hex string, string, buffer);   *)
(* the primitives of accounts-crypto (blake2b256, nacl, scrypt, the node   *)
(* ciphers) and of aion-rlp are idealised: a hash is collision free, a     *)
(* signature verifies exactly under the key pair and message that made it. *)
(* createKeyPair stores the pair as _privateKey/_publicKey and accounts.js *)
(* reads account.privateKey/account.publicKey; the model keeps one field   *)
(* for each key.                                                           *)
(***************************************************************************)
EXTENDS Integers, Sequences, FiniteSets, TLC

\* ---------------------------------------------------------------- bounds
MaxNum == 1
NumSeeds == 2
\* characters of an address (an Aion address has 64)
AddrLen == 9
\* accounts a wallet is grown to
MaxAccounts == 2

\* ------------------------------------------------------ JavaScript values
Undef == [k |-> "undefined"]
Null == [k |-> "null"]
Num(n) == [k |-> "number", n |-> n]
Hex(n) == [k |-> "hex", n |-> n]
Str(s) == [k |-> "string", s |-> s]

\* !v is false
Truthy(v) == v # Undef /\ v # Null /\ v # Num(0) /\ v # Str("")

\* v < 0
IsNegative(v) == v.k = "number" /\ v.n < 0

\* a || b
OrElse(a, b) == IF Truthy(a) THEN a ELSE b

toLowerCase(v) ==
    IF v = Str("0xA0AB") THEN Str("0xa0ab") ELSE v

\* ------------------------------------------------------------- primitives
blake2b256(x) == [h |-> [of |-> x]]

PubOf(seed) == [pub |-> seed]

SignDetached(hash, privateKey) ==
    [msg |-> hash, seed |-> privateKey.seed, pubUsed |-> privateKey.pub]

VerifyDetached(hash, signature, publicKey) ==
    /\ signature.msg = hash
    /\ signature.pubUsed = publicKey
    /\ PubOf(signature.seed) = publicKey

\* a secret key: the seed followed by the public key; len is its byte length
SecretKey(seed, pub, len) == [seed |-> seed, pub |-> pub, len |-> len]
ValidKeys == { SecretKey(s, PubOf(s), 64) : s \in 1..NumSeeds }
MismatchedKey == SecretKey(1, PubOf(NumSeeds + 1), 64)
ShortKey == SecretKey(1, PubOf(1), 32)
PrivateKeys == ValidKeys \cup {MismatchedKey, ShortKey}

\* ------------------------------------------------------------ accounts-util
createA0Address(publicKey) ==
    [tag |-> "a0", tail |-> blake2b256(publicKey)]

\* nacl.sign.keyPair.fromSecretKey: throws on a key that is not 64 bytes,
\* and takes the public key from the key's second half
createKeyPair(privateKey) ==
    IF privateKey.len # 64
    THEN [threw |-> TRUE]
    ELSE [threw |-> FALSE, privateKey |-> privateKey, publicKey |-> privateKey.pub]

createAionAccount(privateKey) ==
    LET kp == createKeyPair(privateKey) IN
    IF kp.threw THEN kp
    ELSE [threw |-> FALSE, privateKey |-> kp.privateKey, publicKey |-> kp.publicKey,
          address |-> createA0Address(kp.publicKey)]

privateKeyToAccount(privateKey) == createAionAccount(privateKey)

\* ------------------------------------------------------------------ aion-rlp
\* one item on the wire: the general byte-string form or the AionLong form
Bytes(c) == [form |-> "bytes", val |-> c]
Long(c) == [form |-> "long", val |-> c]
Empty == Bytes([str |-> ""])
\* a Buffer holds the bytes of one wire item
Buf(item) == [k |-> "buffer", b |-> item]

EncodeItem(v) ==
    CASE v.k = "buffer" -> v.b
      [] v.k = "aionlong" -> Long([int |-> v.n])
      [] v.k = "number" -> Bytes([int |-> v.n])
      [] v.k = "hex" -> Bytes([int |-> v.n])
      [] v.k = "string" -> IF v.s = "0x" \/ v.s = "" THEN Empty ELSE Bytes([str |-> v.s])
      [] OTHER -> Empty

\* the encoding of a list is the list of its items' wire forms
RlpEncode(list) == [rlp |-> [i \in 1..Len(list) |-> EncodeItem(list[i])]]
RlpDecode(enc) == [i \in 1..Len(enc.rlp) |-> Buf(enc.rlp[i])]

AionLong(n) == [k |-> "aionlong", n |-> n]

toAionLong(val) ==
    IF val = Undef \/ val = Null \/ val = Str("") \/ val = Str("0x")
    THEN Null
    ELSE AionLong(val.n)

\* -------------------------------------------------------------- accounts-format
\* the numeric fields of a call become hex strings; absent fields stay absent
numberToHex(v) == IF v.k = "number" THEN Hex(v.n) ELSE v

inputCallFormatter(tx) ==
    [tx EXCEPT !.nonce = numberToHex(@), !.gas = numberToHex(@),
               !.gasPrice = numberToHex(@), !.value = numberToHex(@)]

\* ------------------------------------------------------------------ state
VARIABLES
    op,      \* the operation that ran last
    args,    \* its arguments
    out,     \* how it ended: resolved/returned, rejected, or threw
    calls,   \* the primitives it invoked, in order
    cb,      \* the callback invocations it made, in order
    wire,    \* the raw transaction or keystore handed on to the next operation
    origin,  \* what the holder of wire knows of its making
    wallet   \* the Wallet of the Accounts object

vars == <<op, args, out, calls, cb, wire, origin, wallet>>

Nothing == [k |-> "nothing"]
Err(name) == [error |-> name]

\* lines 481-485: a Wallet holds its length, and each account under its index,
\* its address and its lowercased address; objects are the accounts it was given,
\* an entry names one of them
EmptyWallet == [length |-> 0, byIndex |-> <<>>, byAddress |-> <<>>, objects |-> <<>>]

Init ==
    /\ op = "idle"
    /\ args = Nothing
    /\ out = Nothing
    /\ calls = <<>>
    /\ cb = <<>>
    /\ wire = Nothing
    /\ origin = Nothing
    /\ wallet = EmptyWallet

\* --------------------------------------------------------- signTransaction
Nums == -1..MaxNum
NumVals == {Undef} \cup { Num(n) : n \in Nums }

Transactions ==
    [nonce : NumVals, gas : NumVals, gasPrice : NumVals,
     gasLimit : {Undef, Num(1)},
     chainId : {Undef, Num(-1), Num(1)},
     type : {Undef, Num(-1), Num(0), Num(2)},
     to : {Undef, Str("0xA0AB")},
     data : {Undef, Str("0xd1")},
     value : {Undef, Num(5)},
     timestamp : {Undef, Num(0), Num(7)}]

Clock == {Num(1600000000)}

ValidationError_NoNegativeCheck(tx) ==
    IF ~Truthy(tx.gas) /\ ~Truthy(tx.gasLimit) THEN Err("gas is missing") ELSE Nothing

\* lines 152-162: the error the validation of signed(tx) ends with
ValidationError(tx) ==
    IF \/ IsNegative(tx.nonce) \/ IsNegative(tx.gas) \/ IsNegative(tx.gasPrice)
       \/ IsNegative(tx.chainId) \/ IsNegative(tx.type)
    THEN Err("Gas, gasPrice, nonce or chainId is lower than 0")
    ELSE IF ~Truthy(tx.gas) /\ ~Truthy(tx.gasLimit)
    THEN Err("gas is missing")
    ELSE Nothing

\* lines 170-177: the transaction after formatting and defaulting
Defaulted(tx, now) ==
    LET f == inputCallFormatter(tx) IN
    [f EXCEPT !.to = OrElse(f.to, Str("0x")),
              !.data = OrElse(f.data, Str("0x")),
              !.value = OrElse(f.value, Str("0x")),
              !.timestamp = OrElse(f.timestamp, now),
              !.type = numberToHex(OrElse(f.type, Num(1)))]

UnsignedList_GasPriceFirst(t) ==
    << t.nonce, toLowerCase(t.to), t.value, t.data, t.timestamp,
       toAionLong(t.gasPrice), toAionLong(t.gas), t.type >>

\* lines 179-188: the list that is encoded and hashed
UnsignedList(t) ==
    << t.nonce, toLowerCase(t.to), t.value, t.data, t.timestamp,
       toAionLong(t.gas), toAionLong(t.gasPrice), t.type >>

\* Buffer.concat([publicKey, signature], aionPubSigLen)
AionPubSig(publicKey, signature) ==
    Buf(Bytes([pub |-> publicKey, sig |-> signature]))

\* line 197: the signature just made is verified under the account's public key
SelfVerifies_Skipped(hash, signature, account) == TRUE

SelfVerifies(hash, signature, account) ==
    VerifyDetached(hash, signature, account.publicKey)

\* lines 150-223: signed(tx), entered with the account already made
signed(tx, account, now) ==
    LET error == ValidationError(tx)
        rlpEncoded == RlpEncode(UnsignedList(Defaulted(tx, now)))
        hash == blake2b256(rlpEncoded)
        signature == SignDetached(hash, account.privateKey)
        aionPubSig == AionPubSig(account.publicKey, signature)
        rawTx == RlpDecode(rlpEncoded) \o <<aionPubSig>>
        result == [messageHash |-> hash, signature |-> aionPubSig,
                   rawTransaction |-> RlpEncode(rawTx)]
    IN  IF error # Nothing
        THEN [out |-> [kind |-> "rejected", error |-> error],
              calls |-> <<>>,
              cb |-> << [err |-> error, res |-> Undef] >>]
        ELSE IF ~SelfVerifies(hash, signature, account)
        THEN [out |-> [kind |-> "rejected", error |-> Err("Could not verify signature.")],
              calls |-> <<"blake2b256", "sign", "verify">>,
              cb |-> << [err |-> Err("Could not verify signature."), res |-> Null] >>]
        ELSE [out |-> [kind |-> "resolved", value |-> result],
              calls |-> <<"blake2b256", "sign", "verify">>,
              cb |-> << [err |-> Null, res |-> result] >>]

\* lines 135-232
signTransaction(tx, privateKey, now) ==
    LET account == privateKeyToAccount(privateKey) IN
    IF account.threw
    THEN [out |-> [kind |-> "threw", error |-> Err("bad secret key size")],
          calls |-> <<"fromSecretKey">>, cb |-> <<>>]
    ELSE LET pre == <<"fromSecretKey", "blake2b256">> IN
         IF tx = Null
         THEN [out |-> [kind |-> "rejected", error |-> Err("No transaction object given!")],
               calls |-> pre,
               cb |-> << [err |-> Err("No transaction object given!"), res |-> Null] >>]
         ELSE IF tx.nonce # Undef /\ tx.gasPrice # Undef
         THEN LET r == signed(tx, account, now) IN
              [out |-> r.out, calls |-> pre \o r.calls, cb |-> r.cb]
         ELSE [out |-> [kind |-> "rejected",
                        error |-> Err("nonce, chainId or gasPrice was not provided")],
               calls |-> pre, cb |-> <<>>]

SignTransaction ==
    /\ op = "idle"
    /\ \E tx \in Transactions \cup {Null}, privateKey \in PrivateKeys, now \in Clock :
         LET r == signTransaction(tx, privateKey, now) IN
         /\ op' = "signTransaction"
         /\ args' = [tx |-> tx, privateKey |-> privateKey, now |-> now]
         /\ out' = r.out
         /\ calls' = r.calls
         /\ cb' = r.cb
         /\ wire' = IF r.out.kind = "resolved" THEN r.out.value.rawTransaction ELSE Nothing
         /\ origin' = IF r.out.kind = "resolved"
                      THEN [kind |-> "rawTransaction", privateKey |-> privateKey, intact |-> TRUE]
                      ELSE Nothing
    /\ UNCHANGED wallet

\* ------------------------------------------------------ recoverTransaction
\* lines 276-280: the address of the first publicKeyLength bytes of the signature
recover(message, signature) ==
    LET sig == IF Truthy(signature) THEN signature ELSE message.signature
        publicKey == sig.b.val.pub
    IN  createA0Address(publicKey)

\* lines 235-237
recoverTransaction(rawTx) ==
    LET decoded == RlpDecode(rawTx) IN
    recover(Null, decoded[Len(decoded)])

RecoverTransaction ==
    /\ op \in {"signTransaction", "alter"}
    /\ origin # Nothing /\ origin.kind = "rawTransaction"
    /\ op' = "recoverTransaction"
    /\ args' = [rawTx |-> wire]
    /\ out' = [kind |-> "returned", value |-> recoverTransaction(wire)]
    /\ calls' = <<"blake2b256">>
    /\ cb' = <<>>
    /\ UNCHANGED <<wire, origin>>
    /\ UNCHANGED wallet

\* A raw transaction changed between signing and recovery: one of the eight
\* fields, the signature, or the embedded public key.
AlteredField(raw) ==
    [rlp |-> [raw.rlp EXCEPT ![1] = Bytes([int |-> raw.rlp[1].val.int + 1])]]

AlteredSignature(raw) ==
    [rlp |-> [raw.rlp EXCEPT ![9].val.sig.msg = blake2b256(Nothing)]]

AlteredPublicKey(raw) ==
    [rlp |-> [raw.rlp EXCEPT ![9].val.pub =
                 IF @ = PubOf(1) THEN PubOf(2) ELSE PubOf(1)]]

AlterRawTransaction ==
    /\ op = "signTransaction"
    /\ origin # Nothing /\ origin.kind = "rawTransaction"
    /\ \E altered \in {AlteredField(wire), AlteredSignature(wire), AlteredPublicKey(wire)} :
         wire' = altered
    /\ op' = "alter"
    /\ origin' = [origin EXCEPT !.intact = FALSE]
    /\ UNCHANGED <<args, out, calls, cb>>
    /\ UNCHANGED wallet

\* ------------------------------------------------- keystore primitives
\* buffer.toString('hex') and new Buffer(hex, 'hex')
toHex(bytes) == [hexOf |-> bytes]
fromHex_NotDecoded(hex) == [utf8Of |-> hex]
fromHex(hex) == hex.hexOf

randomBytes(draw, use) == [random |-> draw, use |-> use]

\* the key scrypt derives: dklen bytes that depend on every other argument
scryptsy(password, salt, n, r, p, dklen) ==
    [password |-> password, salt |-> salt, n |-> n, r |-> r, p |-> p, dklen |-> dklen]

NoBytes == [part |-> "none"]

\* derivedKey.slice(0, 16) and derivedKey.slice(16, 32)
SliceCipherKey(dk) ==
    [part |-> "0-16", of |-> [dk EXCEPT !.dklen = 0], len |-> IF dk.dklen < 16 THEN dk.dklen ELSE 16]

SliceMacKey(dk) ==
    IF dk.dklen <= 16 THEN NoBytes
    ELSE [part |-> "16-32", of |-> [dk EXCEPT !.dklen = 0],
          len |-> IF dk.dklen < 32 THEN dk.dklen - 16 ELSE 16]

\* Buffer.concat([macKey, ciphertext])
Concat(a, b) == IF a = NoBytes THEN [only |-> b] ELSE [first |-> a, then |-> b]

KnownCiphers == {"aes-128-ctr", "aes-128-cbc"}

\* createCipheriv / createDecipheriv throw on an unknown cipher or a key of the wrong length
CipherivThrows(name, key) == name \notin KnownCiphers \/ key.len # 16

Encipher(name, key, iv, plain) ==
    [cipher |-> name, key |-> key, iv |-> iv, plain |-> plain]

\* what deciphering may give: the plain text under the right cipher, key and iv;
\* otherwise other bytes, or (with a padded cipher) a failure
GarbageKey == SecretKey(0, PubOf(-1), 64)

Decipher(name, key, iv, ciphertext) ==
    IF ciphertext.cipher = name /\ ciphertext.key = key /\ ciphertext.iv = iv
    THEN { [threw |-> FALSE, plain |-> ciphertext.plain] }
    ELSE IF name = "aes-128-ctr"
    THEN { [threw |-> FALSE, plain |-> GarbageKey] }
    ELSE { [threw |-> TRUE], [threw |-> FALSE, plain |-> GarbageKey] }

\* ------------------------------------------------------------------ encrypt
Thrown(name, log) == [out |-> [kind |-> "threw", error |-> Err(name)], calls |-> log]
Returned(value, log) == [out |-> [kind |-> "returned", value |-> value], calls |-> log]

\* line 350: options.n || fast ? 8192 : 262144
ScryptN(options, fast) ==
    IF Truthy(options.n) \/ fast THEN 8192 ELSE 262144

\* lines 321-387
encrypt(privateKey, password, options, fast, draw) ==
    LET account == privateKeyToAccount(privateKey)
        salt == IF Truthy(options.salt) THEN options.salt.b ELSE randomBytes(draw, "salt")
        iv == IF Truthy(options.iv) THEN options.iv.b ELSE randomBytes(draw, "iv")
        kdf == OrElse(options.kdf, Str("scrypt")).s
        dklen == OrElse(options.dklen, Num(32)).n
        n == ScryptN(options, fast)
        r == OrElse(options.r, Num(8)).n
        p == OrElse(options.p, Num(1)).n
        derivedKey == scryptsy(password, salt, n, r, p, dklen)
        cipher == OrElse(options.cipher, Str("aes-128-ctr")).s
        ciphertext == Encipher(cipher, SliceCipherKey(derivedKey), iv, account.privateKey)
        mac == blake2b256(Concat(SliceMacKey(derivedKey), ciphertext))
    IN  IF account.threw THEN Thrown("bad secret key size", <<"fromSecretKey">>)
        ELSE LET pre == <<"fromSecretKey", "blake2b256">> IN
        IF options.kdf = Str("pbkdf2") THEN Thrown("pbkdf2 format unsupported, use scrypt", pre)
        ELSE IF kdf # "scrypt" THEN Thrown("Unsupported kdf", pre)
        ELSE IF CipherivThrows(cipher, SliceCipherKey(derivedKey))
        THEN Thrown("createCipheriv", pre \o <<"scrypt">>)
        ELSE Returned(
               [version |-> Num(3),
                id |-> [uuid |-> randomBytes(draw, "uuid")],
                address |-> toHex(account.address),
                crypto |-> [ciphertext |-> toHex(ciphertext),
                            cipherparams |-> [iv |-> toHex(iv)],
                            cipher |-> cipher,
                            kdf |-> kdf,
                            kdfparams |-> [dklen |-> Num(dklen), salt |-> toHex(salt),
                                           n |-> Num(n), r |-> Num(r), p |-> Num(p)],
                            mac |-> toHex(mac)]],
               pre \o <<"scrypt", "encipher", "blake2b256">>)

Passwords == {Str("pw1"), Str("pw2")}

EncryptOptions ==
    [kdf : {Undef, Str("scrypt"), Str("pbkdf2"), Str("argon2")},
     dklen : {Undef, Num(16), Num(8)},
     n : {Undef, Num(4096)},
     r : {Undef, Num(4)},
     p : {Undef, Num(2)},
     cipher : {Undef, Str("aes-128-cbc"), Str("rot13")},
     salt : {Undef, Buf([given |-> "salt"])},
     iv : {Undef, Buf([given |-> "iv"])}]

Draws == {1, 2}

Encrypt ==
    /\ op = "idle"
    /\ \E privateKey \in PrivateKeys, password \in Passwords, options \in EncryptOptions,
          fast \in BOOLEAN, draw \in Draws :
         LET r == encrypt(privateKey, password, options, fast, draw) IN
         /\ op' = "encrypt"
         /\ args' = [privateKey |-> privateKey, password |-> password,
                     options |-> options, fast |-> fast]
         /\ out' = r.out
         /\ calls' = r.calls
         /\ wire' = IF r.out.kind = "returned" THEN r.out.value ELSE Nothing
         /\ origin' = IF r.out.kind = "returned"
                      THEN [kind |-> "keystore", privateKey |-> privateKey,
                            password |-> password, intact |-> TRUE]
                      ELSE Nothing
    /\ cb' = <<>>
    /\ UNCHANGED wallet

\* encrypt(privateKey, password): no options given
NoOptions ==
    [kdf |-> Undef, dklen |-> Undef, n |-> Undef, r |-> Undef, p |-> Undef,
     cipher |-> Undef, salt |-> Undef, iv |-> Undef]
SampleKey == SecretKey(1, PubOf(1), 64)
SampleKeystore == encrypt(SampleKey, Str("pw1"), NoOptions, TRUE, 1).out.value

\* ------------------------------------------------------------------ decrypt
\* lines 283-319 with pbkdf2 derived like scrypt instead of refused
decrypt_Pbkdf2Accepted(json, password) ==
    LET kdfparams == json.crypto.kdfparams
        derivedKey == scryptsy(password, fromHex(kdfparams.salt), kdfparams.n.n,
                               kdfparams.r.n, kdfparams.p.n, kdfparams.dklen.n)
        ciphertext == fromHex(json.crypto.ciphertext)
        mac == toHex(blake2b256(Concat(SliceMacKey(derivedKey), ciphertext)))
        key == SliceCipherKey(derivedKey)
        iv == fromHex(json.crypto.cipherparams.iv)
        Seeded(d) ==
            IF d.threw THEN Thrown("bad decrypt", <<"scrypt", "blake2b256", "decipher">>)
            ELSE LET account == privateKeyToAccount(d.plain) IN
                 IF account.threw
                 THEN Thrown("bad secret key size",
                             <<"scrypt", "blake2b256", "decipher", "fromSecretKey">>)
                 ELSE Returned(account,
                        <<"scrypt", "blake2b256", "decipher", "fromSecretKey", "blake2b256">>)
    IN  IF password.k # "string" THEN { Thrown("No password given.", <<>>) }
        ELSE IF json.version # Num(3) THEN { Thrown("Not a valid V3 wallet", <<>>) }
        ELSE IF json.crypto.kdf \notin {"scrypt", "pbkdf2"}
        THEN { Thrown("Unsupported key derivation scheme", <<>>) }
        ELSE IF mac # json.crypto.mac
        THEN { Thrown("Key derivation failed - possibly wrong password",
                      <<"scrypt", "blake2b256">>) }
        ELSE IF CipherivThrows(json.crypto.cipher, key)
        THEN { Thrown("createDecipheriv", <<"scrypt", "blake2b256">>) }
        ELSE { Seeded(d) : d \in Decipher(json.crypto.cipher, key, iv, ciphertext) }

\* lines 283-319; the outcomes differ only in what deciphering gives
decrypt(json, password) ==
    LET kdfparams == json.crypto.kdfparams
        derivedKey == scryptsy(password, fromHex(kdfparams.salt), kdfparams.n.n,
                               kdfparams.r.n, kdfparams.p.n, kdfparams.dklen.n)
        ciphertext == fromHex(json.crypto.ciphertext)
        mac == toHex(blake2b256(Concat(SliceMacKey(derivedKey), ciphertext)))
        key == SliceCipherKey(derivedKey)
        iv == fromHex(json.crypto.cipherparams.iv)
        Seeded(d) ==
            IF d.threw THEN Thrown("bad decrypt", <<"scrypt", "blake2b256", "decipher">>)
            ELSE LET account == privateKeyToAccount(d.plain) IN
                 IF account.threw
                 THEN Thrown("bad secret key size",
                             <<"scrypt", "blake2b256", "decipher", "fromSecretKey">>)
                 ELSE Returned(account,
                        <<"scrypt", "blake2b256", "decipher", "fromSecretKey", "blake2b256">>)
    IN  IF password.k # "string" THEN { Thrown("No password given.", <<>>) }
        ELSE IF json.version # Num(3) THEN { Thrown("Not a valid V3 wallet", <<>>) }
        ELSE IF json.crypto.kdf = "pbkdf2"
        THEN { Thrown("pbkdf2 is unsupported by AION keystore format", <<>>) }
        ELSE IF json.crypto.kdf # "scrypt"
        THEN { Thrown("Unsupported key derivation scheme", <<>>) }
        ELSE IF mac # json.crypto.mac
        THEN { Thrown("Key derivation failed - possibly wrong password",
                      <<"scrypt", "blake2b256">>) }
        ELSE IF CipherivThrows(json.crypto.cipher, key)
        THEN { Thrown("createDecipheriv", <<"scrypt", "blake2b256">>) }
        ELSE { Seeded(d) : d \in Decipher(json.crypto.cipher, key, iv, ciphertext) }

Decrypt ==
    /\ op \in {"encrypt", "alter"}
    /\ origin # Nothing /\ origin.kind = "keystore"
    /\ \E password \in Passwords \cup {Undef} :
         \E r \in decrypt(wire, password) :
            /\ op' = "decrypt"
            /\ args' = [v3Keystore |-> wire, password |-> password]
            /\ out' = r.out
            /\ calls' = r.calls
    /\ cb' = <<>>
    /\ UNCHANGED <<wire, origin>>
    /\ UNCHANGED wallet

\* A keystore changed between encryption and decryption.
AlterKeystore ==
    /\ op = "encrypt"
    /\ origin # Nothing /\ origin.kind = "keystore"
    /\ \E altered \in { [wire EXCEPT !.version = Num(4)],
                         [wire EXCEPT !.crypto.kdf = "pbkdf2"],
                         [wire EXCEPT !.crypto.kdf = "argon2"],
                         [wire EXCEPT !.crypto.mac = toHex(blake2b256(Nothing))] } :
         wire' = altered
    /\ op' = "alter"
    /\ origin' = [origin EXCEPT !.intact = FALSE]
    /\ UNCHANGED <<args, out, calls, cb>>
    /\ UNCHANGED wallet

\* ------------------------------------------------------------ toRlp, fromRlp
\* a keystore field on the wire: text, an integer, or a nested encoding
Text(x) == Bytes([text |-> x])
IntItem(v) == Bytes([int |-> v.n])
Nested(enc) == Bytes([nested |-> enc])

\* lines 406-436.  The lists _kdfparams and _cipherparams are encoded (lines 407-418),
\* then line 426 reads Kdfparams, a name the function does not bind (it binds
\* kdfparams), and line 433 reads Crypto (it binds crypto): the call ends there.
toRlp(ksv3) ==
    LET kdfparams == [rlp |-> << Text(""), IntItem(ksv3.crypto.kdfparams.dklen),
                                 IntItem(ksv3.crypto.kdfparams.n), IntItem(ksv3.crypto.kdfparams.p),
                                 IntItem(ksv3.crypto.kdfparams.r), Text(ksv3.crypto.kdfparams.salt) >>]
        Cipherparams == [rlp |-> << Text(ksv3.crypto.cipherparams.iv) >>]
    IN  Thrown("ReferenceError: Kdfparams is not defined", <<"rlp.encode", "rlp.encode">>)

NaN == [k |-> "NaN"]

\* buffer.toString('utf8') and parseInt(buffer.toString('hex'), 16)
utf8(buffer) == buffer.b.val.text
parseIntHex(buffer) ==
    IF "int" \in DOMAIN buffer.b.val THEN Num(buffer.b.val.int) ELSE NaN

\* lines 446-475
fromRlp(keystore) ==
    LET Ksv3 == RlpDecode(keystore)
        Crypto == RlpDecode(Ksv3[4].b.val.nested)
        Cipherparams == RlpDecode(Crypto[5].b.val.nested)
        Kdfparams == RlpDecode(Crypto[6].b.val.nested)
    IN  [id |-> utf8(Ksv3[1]),
         version |-> parseIntHex(Ksv3[2]),
         address |-> utf8(Ksv3[3]),
         crypto |-> [cipher |-> utf8(Crypto[1]),
                     ciphertext |-> utf8(Crypto[2]),
                     kdf |-> utf8(Crypto[3]),
                     mac |-> utf8(Crypto[4]),
                     cipherparams |-> [iv |-> utf8(Cipherparams[1])],
                     kdfparams |-> [dklen |-> parseIntHex(Kdfparams[2]),
                                    n |-> parseIntHex(Kdfparams[3]),
                                    p |-> parseIntHex(Kdfparams[4]),
                                    r |-> parseIntHex(Kdfparams[5]),
                                    salt |-> utf8(Kdfparams[6])]]]

\* what fromRlp does with a list of any length: an item that is not there is
\* undefined, and reading a property of undefined is a TypeError
fromRlpResult(keystore) ==
    LET Ksv3 == RlpDecode(keystore)
        Crypto == RlpDecode(Ksv3[4].b.val.nested)
        TypeError == Thrown("TypeError: Cannot read property 'toString' of undefined",
                            <<"rlp.decode">>)
    IN  IF Len(Ksv3) < 4 THEN TypeError
        ELSE IF Len(Crypto) < 6 THEN TypeError
        ELSE Returned(fromRlp(keystore),
                      <<"rlp.decode", "rlp.decode", "rlp.decode", "rlp.decode">>)

\* the compact form of a keystore, in the layout toRlp writes (lines 407-435) and
\* fromRlp reads; shape adds or drops the last item of the outer or crypto list,
\* emptied names an integer field written as the empty byte string
Shapes == {"intact", "outer+1", "outer-1", "crypto+1", "crypto-1"}
IntFields == {"version", "dklen", "n", "p", "r"}
Compact(k, shape, emptied) ==
    LET F(name, v) == IF emptied = name THEN Empty ELSE IntItem(v)
        kdfparams == [rlp |-> << Text(""), F("dklen", k.crypto.kdfparams.dklen),
                                 F("n", k.crypto.kdfparams.n), F("p", k.crypto.kdfparams.p),
                                 F("r", k.crypto.kdfparams.r), Text(k.crypto.kdfparams.salt) >>]
        cipherparams == [rlp |-> << Text(k.crypto.cipherparams.iv) >>]
        crypto == << Text(k.crypto.cipher), Text(k.crypto.ciphertext), Text(k.crypto.kdf),
                     Text(k.crypto.mac), Nested(cipherparams), Nested(kdfparams) >>
        cryptoList == CASE shape = "crypto+1" -> Append(crypto, Text("extra"))
                        [] shape = "crypto-1" -> SubSeq(crypto, 1, 5)
                        [] OTHER -> crypto
        outer == << Text(k.id), F("version", k.version), Text(k.address),
                    Nested([rlp |-> cryptoList]) >>
    IN  [rlp |-> CASE shape = "outer+1" -> Append(outer, Text("extra"))
                   [] shape = "outer-1" -> SubSeq(outer, 1, 3)
                   [] OTHER -> outer]

RlpKeystores ==
    { Compact(encrypt(k, Str("pw1"), NoOptions, TRUE, 1).out.value, shape, emptied) :
        k \in ValidKeys, shape \in Shapes, emptied \in IntFields \cup {"none"} }

\* scrypt handed a parameter that is not a number: it throws, or derives a key
\* that is not the keystore's
ScryptOnNaN ==
    { Thrown("scrypt", <<"scrypt">>),
      Thrown("Key derivation failed - possibly wrong password", <<"scrypt", "blake2b256">>) }

\* lines 394-396: decrypt(fromRlp(buffer), password)
decryptFromRlp(buffer, password) ==
    LET decoded == fromRlpResult(buffer)
        json == decoded.out.value
        kp == json.crypto.kdfparams
    IN  IF decoded.out.kind = "threw" THEN { decoded }
        ELSE IF /\ password.k = "string" /\ json.version = Num(3) /\ json.crypto.kdf = "scrypt"
                /\ NaN \in {kp.dklen, kp.n, kp.p, kp.r}
        THEN { [r EXCEPT !.calls = decoded.calls \o @] : r \in ScryptOnNaN }
        ELSE { [r EXCEPT !.calls = decoded.calls \o @] : r \in decrypt(json, password) }

DecryptFromRlp ==
    /\ op = "idle"
    /\ \E buffer \in RlpKeystores, password \in Passwords \cup {Undef} :
         \E r \in decryptFromRlp(buffer, password) :
            /\ op' = "decryptFromRlp"
            /\ args' = [buffer |-> buffer, password |-> password]
            /\ out' = r.out
            /\ calls' = r.calls
            /\ wire' = IF fromRlpResult(buffer).out.kind = "returned"
                       THEN fromRlpResult(buffer).out.value ELSE Nothing
    /\ cb' = <<>>
    /\ origin' = Nothing
    /\ UNCHANGED wallet

\* toRlp on a keystore that encrypt returned (encryptToRlp, lines 389-391)
ToRlp ==
    /\ op = "encrypt"
    /\ origin # Nothing /\ origin.kind = "keystore"
    /\ LET r == toRlp(wire) IN
         /\ op' = "toRlp"
         /\ args' = [ksv3 |-> wire]
         /\ out' = r.out
         /\ calls' = r.calls
         /\ wire' = IF r.out.kind = "returned" THEN r.out.value ELSE Nothing
         /\ origin' = IF r.out.kind = "returned"
                      THEN [origin EXCEPT !.kind = "rlp"] ELSE Nothing
    /\ cb' = <<>>
    /\ UNCHANGED wallet

\* ------------------------------------------------- create, privateKeyToAccount
seedLength == 32

\* entropy: its leading bytes (named by seed) and its length in bytes
Entropy(seed, len) == [seed |-> seed, len |-> len]
EntropyLengths == {seedLength - 16, seedLength, seedLength + 16}
Entropies == { Entropy(s, l) : s \in 1..NumSeeds, l \in EntropyLengths }

randomHexBuffer(draw) == Entropy(draw, seedLength)

\* entropy.slice(0, nacl.sign.seedLength)
SliceSeed(entropy) ==
    Entropy(entropy.seed, IF entropy.len < seedLength THEN entropy.len ELSE seedLength)

\* nacl.sign.keyPair.fromSeed: throws on a seed that is not seedLength bytes
fromSeed(seed) ==
    IF seed.len # seedLength
    THEN [threw |-> TRUE]
    ELSE [threw |-> FALSE, secretKey |-> SecretKey(seed.seed, PubOf(seed.seed), 64),
          publicKey |-> PubOf(seed.seed)]

\* accounts-util lines 39-56: createKeyPair without a privateKey.  A length
\* other than seedLength is only logged (lines 43-49).
createKeyPairOfEntropy(entropy, draw) ==
    LET e == IF entropy = Undef THEN randomHexBuffer(draw) ELSE entropy
        kp == fromSeed(SliceSeed(e))
    IN  IF kp.threw THEN kp
        ELSE [threw |-> FALSE, privateKey |-> kp.secretKey, publicKey |-> kp.publicKey]

\* lines 123-125, through createAionAccount (lines 114-121)
create(entropy, draw) ==
    LET kp == createKeyPairOfEntropy(entropy, draw) IN
    IF kp.threw THEN Thrown("bad seed size", <<"fromSeed">>)
    ELSE Returned([threw |-> FALSE, privateKey |-> kp.privateKey, publicKey |-> kp.publicKey,
                   address |-> createA0Address(kp.publicKey)],
                  <<"fromSeed", "blake2b256">>)

Create ==
    /\ op = "idle"
    /\ \E entropy \in Entropies \cup {Undef}, draw \in Draws :
         LET r == create(entropy, draw) IN
         /\ op' = "create"
         /\ args' = [entropy |-> entropy]
         /\ out' = r.out
         /\ calls' = r.calls
    /\ cb' = <<>>
    /\ wire' = Nothing
    /\ origin' = Nothing
    /\ UNCHANGED wallet

\* lines 127-129
PrivateKeyToAccount ==
    /\ op = "idle"
    /\ \E privateKey \in PrivateKeys :
         LET account == privateKeyToAccount(privateKey)
             r == IF account.threw THEN Thrown("bad secret key size", <<"fromSecretKey">>)
                  ELSE Returned(account, <<"fromSecretKey", "blake2b256">>)
         IN  /\ op' = "privateKeyToAccount"
             /\ args' = [privateKey |-> privateKey]
             /\ out' = r.out
             /\ calls' = r.calls
    /\ cb' = <<>>
    /\ wire' = Nothing
    /\ origin' = Nothing
    /\ UNCHANGED wallet

\* ------------------------------------------------------- checksum addresses
\* a string is the sequence of its characters
toUpperCaseChar(c) ==
    CASE c = "a" -> "A" [] c = "b" -> "B" [] c = "c" -> "C" [] c = "d" -> "D"
      [] c = "e" -> "E" [] c = "f" -> "F" [] c = "x" -> "X" [] OTHER -> c
toLowerCaseChar(c) ==
    CASE c = "A" -> "a" [] c = "B" -> "b" [] c = "C" -> "c" [] c = "D" -> "d"
      [] c = "E" -> "e" [] c = "F" -> "f" [] c = "X" -> "x" [] OTHER -> c
toUpperCaseString(str) == [i \in 1..Len(str) |-> toUpperCaseChar(str[i])]
toLowerCaseString(str) == [i \in 1..Len(str) |-> toLowerCaseChar(str[i])]

\* isNaN(char) === false, for a character of an address
IsNumeric(c) == c \in {"0", "1", "2", "3", "4", "5", "6", "7", "8", "9"}

removeLeadingZeroX(str) ==
    IF Len(str) >= 2 /\ str[1] = "0" /\ str[2] = "x" THEN SubSeq(str, 3, Len(str)) ELSE str
prependZeroX(str) ==
    IF Len(str) >= 2 /\ str[1] = "0" /\ str[2] = "x" THEN str ELSE <<"0", "x">> \o str

\* the bytes of the hash of a string: two bytes that every character bears on
CharCode(c) ==
    CASE c = "7" -> 55 [] c = "e" -> 101 [] c = "E" -> 69 [] c = "x" -> 120
      [] c = "X" -> 88 [] c = "0" -> 48 [] OTHER -> 63
RECURSIVE Mix(_, _)
Mix(str, acc) ==
    IF str = <<>> THEN acc
    ELSE Mix(Tail(str), (acc * 31 + CharCode(Head(str)) + 7) % 65536)
HashBytes(hash) ==
    LET m == Mix(hash.h.of, 5381) IN << m % 256, m \div 256 >>

\* accounts-util lines 76-81; index counts from 0
bit(arr, index) ==
    LET byteOffset == index \div 8
        bitOffset == index % 8
        uint8 == HashBytes(arr)[byteOffset + 1]
    IN  (uint8 \div (2 ^ bitOffset)) % 2

\* accounts-util lines 83-104
createChecksumAddress(val) ==
    LET address == removeLeadingZeroX(toLowerCaseString(val))
        addressHash == blake2b256(address)
    IN  prependZeroX(
          [i \in 1..Len(address) |->
             LET char == address[i] IN
             IF IsNumeric(char) THEN char
             ELSE IF bit(addressHash, i - 1) = 1
                  THEN toUpperCaseChar(char) ELSE toLowerCaseChar(char)])

\* accounts-util line 106
isValidChecksumAddress_IgnoringCase(val) ==
    toLowerCaseString(val) = toLowerCaseString(createChecksumAddress(val))

isValidChecksumAddress(val) == val = createChecksumAddress(val)

AddressChars == {"7", "e"}
\* a valid address: AddrLen hex characters in either case, with or without 0x
Addresses ==
    LET lower == [1..AddrLen -> AddressChars] IN
    UNION { { a, toUpperCaseString(a), <<"0", "x">> \o a, <<"0", "x">> \o toUpperCaseString(a) }
            : a \in lower }

CreateChecksumAddress ==
    /\ op = "idle"
    /\ \E val \in Addresses :
         /\ op' = "createChecksumAddress"
         /\ args' = [val |-> val]
         /\ out' = [kind |-> "returned", value |-> [str |-> createChecksumAddress(val)]]
         /\ wire' = [str |-> createChecksumAddress(val)]
    /\ calls' = <<"blake2b256">>
    /\ cb' = <<>>
    /\ origin' = [kind |-> "checksum", intact |-> TRUE]
    /\ UNCHANGED wallet

\* One character of a checksum address changes its case.
ChangeCase ==
    /\ op = "createChecksumAddress"
    /\ \E i \in 1..Len(wire.str) :
         LET c == wire.str[i]
             swapped == IF toUpperCaseChar(c) # c THEN toUpperCaseChar(c) ELSE toLowerCaseChar(c)
         IN  /\ swapped # c
             /\ wire' = [str |-> [wire.str EXCEPT ![i] = swapped]]
    /\ op' = "alter"
    /\ origin' = [origin EXCEPT !.intact = FALSE]
    /\ UNCHANGED <<args, out, calls, cb>>
    /\ UNCHANGED wallet

IsValidChecksumAddress ==
    /\ op \in {"createChecksumAddress", "alter"}
    /\ origin # Nothing /\ origin.kind = "checksum"
    /\ op' = "isValidChecksumAddress"
    /\ args' = [val |-> wire.str]
    /\ out' = [kind |-> "returned", value |-> [bool |-> isValidChecksumAddress(wire.str)]]
    /\ calls' = <<"blake2b256">>
    /\ cb' = <<>>
    /\ UNCHANGED <<wire, origin>>
    /\ UNCHANGED wallet

\* ------------------------------------------------------------------ Wallet
\* this[key] = value and delete this[key]
Put(f, key, value) == [x \in DOMAIN f \cup {key} |-> IF x = key THEN value ELSE f[x]]
Delete(f, key) == [x \in DOMAIN f \ {key} |-> f[x]]

IsAddress(key) == "tag" \in DOMAIN key
\* this[key]: the object stored under an index or an address, 0 when there is none
Stored(w, key) ==
    IF IsAddress(key)
    THEN IF key \in DOMAIN w.byAddress THEN w.byAddress[key] ELSE 0
    ELSE IF key.n \in DOMAIN w.byIndex THEN w.byIndex[key.n] ELSE 0

\* lines 487-494
RECURSIVE _findSafeIndex(_, _)
_findSafeIndex(w, pointer) ==
    IF pointer \in DOMAIN w.byIndex THEN _findSafeIndex(w, pointer + 1) ELSE pointer

\* lines 496-504: the numeric keys
_currentIndexes(w) == DOMAIN w.byIndex

\* lines 512-531, given a private key
WalletAdded(w, privateKey) ==
    LET account == privateKeyToAccount(privateKey) IN
    IF account.threw
    THEN [wallet |-> w, out |-> [kind |-> "threw", error |-> Err("bad secret key size")]]
    ELSE IF Stored(w, account.address) = 0
    THEN LET index == _findSafeIndex(w, 0)
             id == Len(w.objects) + 1
             object == [address |-> account.address, privateKey |-> account.privateKey,
                        index |-> index]
         IN  [wallet |-> [length |-> w.length + 1,
                          byIndex |-> Put(w.byIndex, index, id),
                          byAddress |-> Put(Put(w.byAddress, account.address, id),
                                            toLowerCase(account.address), id),
                          objects |-> Append(w.objects, object)],
              out |-> [kind |-> "returned", value |-> object]]
    ELSE [wallet |-> w,
          out |-> [kind |-> "returned", value |-> w.objects[Stored(w, account.address)]]]

NoSuchProperty == [kind |-> "threw",
                   error |-> Err("TypeError: Cannot set property 'privateKey' of undefined")]
\* this[key].privateKey = null; delete this[key]
Nulled(w, key) ==
    [w EXCEPT !.objects[Stored(w, key)].privateKey = Null,
              !.byAddress = IF IsAddress(key) THEN Delete(@, key) ELSE @,
              !.byIndex = IF IsAddress(key) THEN @ ELSE Delete(@, key.n)]

\* lines 533-553
WalletRemoved(w, addressOrIndex) ==
    LET id == Stored(w, addressOrIndex)
        account == w.objects[id]
        lower == toLowerCase(account.address)
        w1 == Nulled(w, account.address)
        w2 == Nulled(w1, lower)
        w3 == Nulled(w2, Num(account.index))
    IN  IF id = 0 THEN [wallet |-> w, out |-> [kind |-> "returned", value |-> [bool |-> FALSE]]]
        ELSE IF Stored(w, account.address) = 0 THEN [wallet |-> w, out |-> NoSuchProperty]
        ELSE IF Stored(w1, lower) = 0 THEN [wallet |-> w1, out |-> NoSuchProperty]
        ELSE IF Stored(w2, Num(account.index)) = 0 THEN [wallet |-> w2, out |-> NoSuchProperty]
        ELSE [wallet |-> [w3 EXCEPT !.length = @ - 1],
              out |-> [kind |-> "returned", value |-> [bool |-> TRUE]]]

\* lines 555-564: remove(index) for each index, in ascending order
RECURSIVE RemoveEach(_, _)
RemoveEach(w, indexes) ==
    IF indexes = {} THEN [wallet |-> w, out |-> [kind |-> "returned", value |-> [this |-> w]]]
    ELSE LET index == CHOOSE i \in indexes : \A j \in indexes : i <= j
             r == WalletRemoved(w, Num(index))
         IN  IF r.out.kind = "threw" THEN r ELSE RemoveEach(r.wallet, indexes \ {index})

WalletCleared(w) == RemoveEach(w, _currentIndexes(w))

WalletOps == {"Wallet.add", "Wallet.remove", "Wallet.clear"}
WalletKeys ==
    { Num(i) : i \in 0..MaxAccounts }
      \cup { privateKeyToAccount(k).address : k \in ValidKeys \cup {MismatchedKey} }

WalletAdd ==
    /\ op \in WalletOps \cup {"idle"}
    /\ wallet.length < MaxAccounts
    /\ \E privateKey \in PrivateKeys :
         LET r == WalletAdded(wallet, privateKey) IN
         /\ op' = "Wallet.add"
         /\ args' = [account |-> privateKey]
         /\ out' = r.out
         /\ wallet' = r.wallet
    /\ calls' = <<>>
    /\ cb' = <<>>
    /\ wire' = Nothing
    /\ origin' = [kind |-> "wallet", before |-> wallet]

WalletRemove ==
    /\ op \in WalletOps \cup {"idle"}
    /\ \E addressOrIndex \in WalletKeys :
         LET r == WalletRemoved(wallet, addressOrIndex) IN
         /\ op' = "Wallet.remove"
         /\ args' = [addressOrIndex |-> addressOrIndex]
         /\ out' = r.out
         /\ wallet' = r.wallet
    /\ calls' = <<>>
    /\ cb' = <<>>
    /\ wire' = Nothing
    /\ origin' = [kind |-> "wallet", before |-> wallet]

WalletClear ==
    /\ op \in WalletOps \cup {"idle"}
    /\ LET r == WalletCleared(wallet) IN
         /\ op' = "Wallet.clear"
         /\ args' = Nothing
         /\ out' = r.out
         /\ wallet' = r.wallet
    /\ calls' = <<>>
    /\ cb' = <<>>
    /\ wire' = Nothing
    /\ origin' = [kind |-> "wallet", before |-> wallet]

Reset ==
    /\ op # "idle"
    /\ op' = "idle"
    /\ args' = Nothing
    /\ out' = Nothing
    /\ calls' = <<>>
    /\ cb' = <<>>
    /\ wire' = Nothing
    /\ origin' = Nothing
    /\ wallet' = EmptyWallet

Next ==
    \/ SignTransaction
    \/ AlterRawTransaction
    \/ RecoverTransaction
    \/ Encrypt
    \/ AlterKeystore
    \/ Decrypt
    \/ ToRlp
    \/ Create
    \/ PrivateKeyToAccount
    \/ DecryptFromRlp
    \/ CreateChecksumAddress
    \/ ChangeCase
    \/ IsValidChecksumAddress
    \/ WalletAdd
    \/ WalletRemove
    \/ WalletClear
    \/ Reset

Spec == Init /\ [][Next]_vars

\* ================================================================== claims
Range(seq) == { seq[i] : i \in 1..Len(seq) }
NonNegative(v) == v.k = "number" /\ v.n >= 0
HasNegative(tx) ==
    \/ IsNegative(tx.nonce) \/ IsNegative(tx.gas) \/ IsNegative(tx.gasPrice)
    \/ IsNegative(tx.chainId) \/ IsNegative(tx.type)
Signing == op = "signTransaction" /\ args.tx # Null
\* the byte string a successful signTransaction hashed
Hashed == out.value.messageHash.h.of.rlp
NegativeError == Err("Gas, gasPrice, nonce or chainId is lower than 0")
NotProvidedError == Err("nonce, chainId or gasPrice was not provided")
GasMissingError == Err("gas is missing")
VerifyError == Err("Could not verify signature.")
WrongPasswordError == Err("Key derivation failed - possibly wrong password")

\* C1: with a well-formed secret key, every transaction whose nonce, gas and
\* gasPrice are >= 0 (0 included) and whose chainId and type are not negative is
\* signed, and recoverTransaction of the raw transaction returns the signer's
\* address.
C1_SignSucceedsAndRecovers ==
    /\ ( /\ Signing /\ args.privateKey \in ValidKeys
         /\ NonNegative(args.tx.nonce) /\ NonNegative(args.tx.gas)
         /\ NonNegative(args.tx.gasPrice)
         /\ ~IsNegative(args.tx.chainId) /\ ~IsNegative(args.tx.type) )
       => out.kind = "resolved"
    /\ (op = "recoverTransaction" /\ origin.intact)
       => out.value = privateKeyToAccount(origin.privateKey).address

SignatureVerifies(rawTx) ==
    LET unsigned == [rlp |-> SubSeq(rawTx.rlp, 1, 8)]
        pubSig == rawTx.rlp[9].val
    IN  VerifyDetached(blake2b256(unsigned), pubSig.sig, pubSig.pub)

\* C3: recoverTransaction verifies the embedded signature before it returns an
\* address, and fails on a raw transaction whose signature does not verify.
C3_RecoverVerifies ==
    op = "recoverTransaction"
    => /\ "verify" \in Range(calls)
       /\ (~SignatureVerifies(args.rawTx) => out.kind = "threw")

\* C4: decrypt with a password other than the one the keystore was encrypted
\* under fails with the 'possibly wrong password' error, before any deciphering.
C4_WrongPasswordFails ==
    ( /\ op = "decrypt" /\ origin.intact
      /\ args.password \in Passwords /\ args.password # origin.password )
    => /\ out.kind = "threw"
       /\ out.error = WrongPasswordError
       /\ "decipher" \notin Range(calls)

\* C5: fromRlp(toRlp(k)) completes and gives back k, for every valid keystore k.
C5_RlpRoundTrip ==
    op = "toRlp" => (out.kind = "returned" /\ fromRlp(out.value) = args.ksv3)

General(v) == Bytes([int |-> v.n])
AsLong(v) == Long([int |-> v.n])
Text0x(v) == Bytes([str |-> v.s])

C8_DefaultsOnlyWhenOmitted ==
    (Signing /\ out.kind = "resolved")
    => LET tx == args.tx IN
       /\ Hashed[2] = IF tx.to = Undef THEN Empty ELSE Text0x(toLowerCase(tx.to))
       /\ Hashed[3] = IF tx.value = Undef THEN Empty ELSE General(tx.value)
       /\ Hashed[4] = IF tx.data = Undef THEN Empty ELSE Text0x(tx.data)
       /\ Hashed[5] = IF tx.timestamp = Undef THEN General(args.now)
                      ELSE General(tx.timestamp)
       /\ Hashed[8] = IF tx.type = Undef THEN General(Num(1)) ELSE General(tx.type)

\* C9: a result is returned only with a signature that verifies against the
\* returned messageHash under the signing account's public key; the check runs
\* after signing, and when it fails the call is rejected with the error, the
\* error is passed to the callback, and nothing is returned.
C9_ResultVerifies ==
    op = "signTransaction"
    => /\ out.kind = "resolved"
          => /\ VerifyDetached(out.value.messageHash, out.value.signature.b.val.sig,
                               privateKeyToAccount(args.privateKey).publicKey)
             /\ out.value.signature.b.val.pub =
                    privateKeyToAccount(args.privateKey).publicKey
             /\ calls = <<"fromSecretKey", "blake2b256", "blake2b256", "sign", "verify">>
       /\ ( /\ Signing /\ args.privateKey.len = 64
            /\ PubOf(args.privateKey.seed) # args.privateKey.pub
            /\ args.tx.nonce # Undef /\ args.tx.gasPrice # Undef
            /\ ValidationError(args.tx) = Nothing )
          => /\ out = [kind |-> "rejected", error |-> VerifyError]
             /\ cb = << [err |-> VerifyError, res |-> Null] >>
             /\ wire = Nothing

C9_Witness ==
    /\ op = "signTransaction" /\ args.privateKey = MismatchedKey
    /\ out.kind = "rejected" /\ out.error = VerifyError
    /\ "verify" \in Range(calls)

\* C10: a transaction without nonce or without gasPrice is rejected at once,
\* with no lookup and no result; one that supplies nonce, gasPrice and gas is
\* not rejected for a missing field.
C10_RequiredFields ==
    /\ ( /\ Signing /\ args.privateKey.len = 64
         /\ (args.tx.nonce = Undef \/ args.tx.gasPrice = Undef) )
       => /\ out = [kind |-> "rejected", error |-> NotProvidedError]
          /\ calls = <<"fromSecretKey", "blake2b256">>
          /\ wire = Nothing
    /\ ( /\ Signing /\ args.privateKey.len = 64
         /\ args.tx.nonce # Undef /\ args.tx.gasPrice # Undef /\ args.tx.gas # Undef )
       => ~(out.kind = "rejected" /\ out.error \in {NotProvidedError, GasMissingError})

\* C11: create(entropy) with entropy whose length is not the seed length, shorter
\* or longer, fails and returns no key pair.
C11_EntropyLengthRejected ==
    (op = "create" /\ args.entropy # Undef /\ args.entropy.len # seedLength)
        => out.kind = "threw"

\* C12: every account returned by create, privateKeyToAccount or decrypt has the
\* public key derived from its secret key and the address made of that public key.
C12_AccountWellFormed ==
    (op \in {"create", "privateKeyToAccount", "decrypt"} /\ out.kind = "returned")
        => /\ out.value.publicKey = PubOf(out.value.privateKey.seed)
           /\ out.value.address = createA0Address(out.value.publicKey)

\* the value the caller gave for an option, or the documented default
Given(v, default) == IF v # Undef THEN v ELSE Num(default)
\* the scrypt arguments that made the key a returned keystore was enciphered with
UsedForDerivation == out.value.crypto.ciphertext.hexOf.key.of

\* C13: encrypt with scrypt derives the key with the caller's n, r and p when
\* given and with 8192, 8 and 1 when omitted, and the stored kdfparams are the
\* values used.
C13_ScryptParams ==
    (op = "encrypt" /\ out.kind = "returned")
        => LET stored == out.value.crypto.kdfparams IN
           /\ stored.n = Given(args.options.n, 8192)
           /\ stored.r = Given(args.options.r, 8)
           /\ stored.p = Given(args.options.p, 1)
           /\ Num(UsedForDerivation.n) = stored.n
           /\ Num(UsedForDerivation.r) = stored.r
           /\ Num(UsedForDerivation.p) = stored.p

UnsupportedKdfErrors ==
    { Err("pbkdf2 format unsupported, use scrypt"), Err("Unsupported kdf"),
      Err("pbkdf2 is unsupported by AION keystore format"),
      Err("Unsupported key derivation scheme") }
KdfRefused(o) == o.kind = "threw" /\ o.error \in UnsupportedKdfErrors
\* what the other path does with the kdf name K, every other input being in order
EncryptRefusesKdf(K) ==
    KdfRefused(encrypt(SampleKey, Str("pw1"), [NoOptions EXCEPT !.kdf = Str(K)], TRUE, 1).out)
DecryptRefusesKdf(K) ==
    \A r \in decrypt([SampleKeystore EXCEPT !.crypto.kdf = K], Str("pw1")) : KdfRefused(r.out)
\* an encrypt call that reached its kdf check with a kdf name given
EncryptAtKdf == op = "encrypt" /\ args.options.kdf # Undef /\ args.privateKey.len = 64
\* a decrypt call that reached its kdf check
DecryptAtKdf ==
    op = "decrypt" /\ args.password.k = "string" /\ args.v3Keystore.version = Num(3)

OuterList == RlpDecode(args.buffer)
CryptoList == RlpDecode(OuterList[4].b.val.nested)
Malformed == Len(OuterList) # 4 \/ Len(CryptoList) # 6

\* C15: fromRlp, and so decryptFromRlp, fails and returns no keystore whenever the
\* outer list has not exactly 4 items or the crypto list has not exactly 6.
C15_MalformedRejected ==
    (op = "decryptFromRlp" /\ Malformed) => (out.kind = "threw" /\ wire = Nothing)

KdfparamsList == RlpDecode(CryptoList[6].b.val.nested)
\* the big-endian unsigned integer of a wire item's bytes; no bytes are 0
BigEndian(buffer) == IF buffer.b = Empty THEN Num(0) ELSE Num(buffer.b.val.int)

\* C16: fromRlp decodes version, dklen, n, p and r as the big-endian unsigned
\* integer of the field's bytes, and an empty byte string as 0.
C16_IntegersDecoded ==
    (op = "decryptFromRlp" /\ wire # Nothing)
        => /\ wire.version = BigEndian(OuterList[2])
           /\ wire.crypto.kdfparams.dklen = BigEndian(KdfparamsList[2])
           /\ wire.crypto.kdfparams.n = BigEndian(KdfparamsList[3])
           /\ wire.crypto.kdfparams.p = BigEndian(KdfparamsList[4])
           /\ wire.crypto.kdfparams.r = BigEndian(KdfparamsList[5])

\* C17: the checksum form of a valid address is a valid checksum address, and
\* with the case of exactly one of its characters changed it is not.
C17_ChecksumDetectsCaseChange ==
    op = "isValidChecksumAddress" => (out.value.bool <=> origin.intact)

C17_Witness ==
    /\ op = "isValidChecksumAddress"
    /\ ~origin.intact
    /\ ~out.value.bool
    /\ \E i \in 1..Len(args.val) : i > 10 /\ args.val[i] = "e"
                                    /\ createChecksumAddress(args.val)[i] = "E"

\* the accounts stored under a numeric index
Indexed == { wallet.byIndex[i] : i \in DOMAIN wallet.byIndex }
\* a remove call whose argument named a stored account
RemovedStored == op = "Wallet.remove" /\ Stored(origin.before, args.addressOrIndex) # 0
TargetOfRemove == origin.before.objects[Stored(origin.before, args.addressOrIndex)]

\* C18: after any sequence of add, remove and clear the wallet's length is the
\* number of accounts under numeric indexes and each of them is also stored under
\* its address; remove of a stored account returns true, deletes its index and
\* address entries, nulls its privateKey and takes one from length; clear leaves
\* length 0.
C18_WalletConsistent ==
    /\ wallet.length = Cardinality(DOMAIN wallet.byIndex)
    /\ \A id \in Indexed : Stored(wallet, wallet.objects[id].address) = id
    /\ RemovedStored =>
         /\ out = [kind |-> "returned", value |-> [bool |-> TRUE]]
         /\ Stored(wallet, Num(TargetOfRemove.index)) = 0
         /\ Stored(wallet, TargetOfRemove.address) = 0
         /\ wallet.objects[Stored(origin.before, args.addressOrIndex)].privateKey = Null
         /\ wallet.length = origin.before.length - 1
    /\ op = "Wallet.clear" => wallet.length = 0

\* C19: every signTransaction call reports its outcome on both channels: on
\* success the callback is invoked exactly once with (null, result) and the
\* promise resolves to result; on every failure the callback is invoked exactly
\* once with the error and the promise is rejected with it; the call never
\* throws synchronously.
C19_OutcomeOnBothChannels ==
    op = "signTransaction"
    => /\ out.kind \in {"resolved", "rejected"}
       /\ out.kind = "resolved" => cb = << [err |-> Null, res |-> out.value] >>
       /\ out.kind = "rejected" => (Len(cb) = 1 /\ cb[1].err = out.error)

====
